---- MODULE Spec2Model ----
(***************************************************************************)
(* Model of amazon_order_mcp.py: the process-wide authentication state     *)
(* (_session, _orders_client, _pending_otp_request), the prompt            *)
(* interceptor MCPIOHandler, get_orders_client, and the four tool          *)
(* handlers.  Tool calls are modelled as atomic steps (one call at a       *)
(* time).  The external provider (AmazonSession.login and the AmazonOrders *)
(* queries) is nondeterministic: each call draws a script of prompts and a *)
(* final outcome.                                                          *)
(***************************************************************************)
EXTENDS Integers, Sequences, FiniteSets, TLC

\* ------------------------------------------------------------------ bounds
\* Provider login() invocations (= AmazonSession objects built) in one run.
MaxLogins == 3
\* Prompts the provider issues during one login() at most.
MaxPrompts == 2
\* Orders in one answer of the provider's get_order_history() at most.
MaxOrders == 2
\* Items of one order at most.
MaxItems == 2

\* ------------------------------------------------------------ plain values
\* Python None, for optional strings.
None == "None"

\* bool(x) of an Optional[str]: None and "" are falsy.
Truthy(x) == x # None /\ x # ""

\* Values an environment variable can have: unset, empty, or a non-empty string.
EnvValues == {None, "", "value"}

\* Values of the otp_code argument of amazon_login.
OtpCodes == {None, "", "123456", "654321"}

\* --------------------------------------------------------- prompt messages
\* Prompt texts are character sequences, so lower() and "in" are computed.
MsgOTP == <<"O", "T", "P">>
MsgPasscode == <<"p", "a", "s", "s", "C", "o", "d", "e">>
MsgVerification == <<"V", "e", "r", "i", "f", "i", "c", "a", "t", "i", "o", "n">>
MsgCaptcha == <<"c", "a", "p", "t", "c", "h", "a">>
MsgCod == <<"c", "o", "d", " ", "e">>

\* The prompt texts the provider may issue.
PromptMsgs == {MsgOTP, MsgPasscode, MsgVerification, MsgCaptcha, MsgCod}

\* str.lower() on one character of the alphabet used by PromptMsgs, Titles
\* and SearchTexts.
LowerChar(c) ==
  CASE c = "O" -> "o"
    [] c = "T" -> "t"
    [] c = "P" -> "p"
    [] c = "C" -> "c"
    [] c = "V" -> "v"
    [] c = "H" -> "h"
    [] OTHER -> c

\* str.lower()
Lower(s) == [i \in 1..Len(s) |-> LowerChar(s[i])]

\* Python's  sub in s  for strings.
Contains(sub, s) ==
  \E i \in 1..(Len(s) - Len(sub) + 1) : SubSeq(s, i, i + Len(sub) - 1) = sub

\* The condition of MCPIOHandler.prompt with the message not lower-cased.
IsOtpPromptCaseSensitive(msg) ==
  \/ Contains(<<"o", "t", "p">>, msg)
  \/ Contains(<<"c", "o", "d", "e">>, msg)
  \/ Contains(<<"v", "e", "r", "i", "f", "i", "c", "a", "t", "i", "o", "n">>, msg)

\* The condition of MCPIOHandler.prompt: the message is an OTP prompt.
IsOtpPrompt(msg) ==
  \/ Contains(<<"o", "t", "p">>, Lower(msg))
  \/ Contains(<<"c", "o", "d", "e">>, Lower(msg))
  \/ Contains(<<"v", "e", "r", "i", "f", "i", "c", "a", "t", "i", "o", "n">>, Lower(msg))

\* -------------------------------------------------------------- exceptions
\* An exception is its type and str(e); str(e) is modelled as the set of the
\* phrases it contains (the substring tests of the handlers are membership
\* tests) plus the prompt text embedded in it, if any.  No prompt text of
\* PromptMsgs contains one of the phrases the handlers test for.
NoExc == [type |-> "none", phrases |-> {}, prompt |-> <<>>]

\* OTPRequiredError("OTP_REQUIRED")
OTPRequiredError == [type |-> "OTPRequiredError", phrases |-> {"OTP_REQUIRED"}, prompt |-> <<>>]

\* ValueError(f"Interactive prompt required: {msg}")
PromptValueError(msg) ==
  [type |-> "ValueError", phrases |-> {"Interactive prompt required"}, prompt |-> msg]

\* 'set' if v else 'NOT SET'
SetOrNot(v) == IF Truthy(v) THEN "set" ELSE "NOT SET"

\* ValueError("AMAZON_USERNAME and AMAZON_PASSWORD environment variables must be set. Found: ...")
CredsValueError(u, p) ==
  [type |-> "ValueError",
   phrases |-> {"AMAZON_USERNAME", "AMAZON_PASSWORD",
                IF SetOrNot(u) = "set" THEN "username=set" ELSE "username=NOT SET",
                IF SetOrNot(p) = "set" THEN "password=set" ELSE "password=NOT SET"},
   prompt |-> <<>>]

\* Final outcomes of the provider's login() once its prompts are answered.
LoginFinals == {"ok", "exhausted", "error"}

\* The exception the provider's login() raises for a final outcome.
ProviderLoginError(final) ==
  IF final = "exhausted"
  THEN [type |-> "AmazonOrdersAuthError",
        phrases |-> {"Authentication attempts exhausted"}, prompt |-> <<>>]
  ELSE [type |-> "AmazonOrdersError", phrases |-> {"provider error"}, prompt |-> <<>>]

\* The exception a provider query raises (order not found, transport error).
ProviderQueryError ==
  [type |-> "AmazonOrdersError", phrases |-> {"provider error"}, prompt |-> <<>>]

\* ------------------------------------------------------- prompt interceptor
\* MCPIOHandler.__init__
NewIo(otp_code) == [otp_code |-> otp_code, otp_requested |-> FALSE]

\* The handler of a call that built none.
NoIo == [otp_code |-> None, otp_requested |-> FALSE]

\* MCPIOHandler.prompt without the test of self.otp_code: an OTP prompt is
\* always answered with self.otp_code.
PromptNoCodeTest(io, msg) ==
  IF IsOtpPrompt(msg)
  THEN [io |-> [io EXCEPT !.otp_requested = TRUE], exc |-> NoExc, answer |-> io.otp_code]
  ELSE [io |-> io, exc |-> PromptValueError(msg), answer |-> None]

\* MCPIOHandler.prompt: the handler afterwards, the exception raised (NoExc
\* when it returns) and the answer returned.
Prompt(io, msg) ==
  IF IsOtpPrompt(msg)
  THEN IF Truthy(io.otp_code)
       THEN [io |-> [io EXCEPT !.otp_requested = TRUE], exc |-> NoExc, answer |-> io.otp_code]
       ELSE [io |-> [io EXCEPT !.otp_requested = TRUE], exc |-> OTPRequiredError, answer |-> None]
  ELSE [io |-> io, exc |-> PromptValueError(msg), answer |-> None]

\* ---------------------------------------------------------------- provider
\* What the provider does in one login(): the prompts it would issue, in
\* order, and how it ends once they are all answered.
Scripts ==
  [prompts : UNION {[1..n -> PromptMsgs] : n \in 0..MaxPrompts}, final : LoginFinals]

RECURSIVE RunPrompts(_, _, _, _)
\* The provider issuing prompts one by one through the handler; an exception
\* raised by prompt() propagates out of login().
RunPrompts(io, prompts, issued, answers) ==
  IF prompts = <<>>
  THEN [io |-> io, exc |-> NoExc, issued |-> issued, answers |-> answers]
  ELSE LET r == Prompt(io, Head(prompts))
       IN IF r.exc # NoExc
          THEN [io |-> r.io, exc |-> r.exc,
                issued |-> Append(issued, Head(prompts)), answers |-> answers]
          ELSE RunPrompts(r.io, Tail(prompts),
                          Append(issued, Head(prompts)), Append(answers, r.answer))

\* AmazonSession.login() under handler io, following script: the handler
\* afterwards, the exception raised (NoExc on success), the prompts issued,
\* the answers received and the final outcome reached ("none" when a prompt
\* raised first).
SessionLogin(io, script) ==
  LET r == RunPrompts(io, script.prompts, <<>>, <<>>)
  IN IF r.exc # NoExc
     THEN [io |-> r.io, exc |-> r.exc, issued |-> r.issued,
           answers |-> r.answers, final |-> "none"]
     ELSE [io |-> r.io,
           exc |-> IF script.final = "ok" THEN NoExc ELSE ProviderLoginError(script.final),
           issued |-> r.issued, answers |-> r.answers, final |-> script.final]

\* Every way the provider's login() can go under MCPIOHandler(otp_code), for
\* each otp_code: SessionLogin over all scripts, computed once.
LoginRuns == [c \in OtpCodes |-> {SessionLogin(NewIo(c), s) : s \in Scripts}]

\* ------------------------------------------------------------------- state
VARIABLES
  username,             \* os.environ.get("AMAZON_USERNAME")
  password,             \* os.environ.get("AMAZON_PASSWORD")
  session,              \* _session
  orders_client,        \* _orders_client
  pending_otp_request,  \* _pending_otp_request
  loginCalls,           \* call counter of the provider's login()
  last,                 \* what the most recent tool call did and returned
  sinceLogin,           \* the outcome of the most recent amazon_login call
  facade,               \* an application of the search or of order_to_dict:
                        \* its inputs and, once applied, its outputs
  calls,                \* per caller, the tool call in progress and where
                        \* in the code it stands
  objects               \* per AmazonSession constructed, the login() calls
                        \* running on it and whether one has succeeded

vars == <<username, password, session, orders_client, pending_otp_request,
          loginCalls, last, sinceLogin, facade, calls, objects>>

\* _session = None.  A session object is its identity (the ordinal of its
\* construction) and whether its login() succeeded.
NoSession == [id |-> 0, authenticated |-> FALSE]

\* _orders_client = None.  A client is the identity of the session it wraps.
NoClient == [session |-> 0]

\* The three globals and the provider's call counter, as one value.
Cur ==
  [session |-> session, orders_client |-> orders_client,
   pending |-> pending_otp_request, loginCalls |-> loginCalls]

\* ------------------------------------------------------- get_orders_client
\* The cached fast path never taken.
FastPathNever(client, pending) == FALSE

\* if _orders_client is not None and not _pending_otp_request
FastPath(client, pending) == client # NoClient /\ ~pending

\* The except branches with the generic branch not consulting the handler.
PendingAfterFailureOtpOnly(pending, exc, io) ==
  IF exc.type = "OTPRequiredError" THEN TRUE ELSE pending

\* _pending_otp_request after login() raised exc under handler io.
PendingAfterFailure(pending, exc, io) ==
  IF exc.type = "OTPRequiredError"
  THEN TRUE
  ELSE IF io.otp_requested THEN TRUE ELSE pending

\* The flag left as it was when login() returns.
PendingAfterSuccessKept(pending) == pending

\* _pending_otp_request = False, once _session.login() has returned.
PendingAfterSuccess(pending) == FALSE

\* What a call of get_orders_client that did not reach the provider reports.
NoAttempt == [io |-> NoIo, issued |-> <<>>, answers |-> <<>>, final |-> "none"]

\* Whether get_orders_client from globals st gets as far as the provider.
ReachesProvider(st) ==
  /\ ~FastPath(st.orders_client, st.pending)
  /\ Truthy(username) /\ Truthy(password)

\* The runs of the provider's login() to draw from for a call of
\* get_orders_client(otp_code) from globals st: the provider has a behaviour
\* only when it is called.
LoginRunsAt(st, otp_code) ==
  IF ReachesProvider(st)
  THEN LoginRuns[otp_code]
  ELSE {[io |-> NoIo, exc |-> NoExc, issued |-> <<>>, answers |-> <<>>, final |-> "none"]}

\* get_orders_client(otp_code) from globals st, where r is the run of
\* _session.login() under the handler built for otp_code: the globals
\* afterwards, the exception raised (NoExc when it returns), the client
\* returned, the number of provider login() calls made and what happened
\* during the attempt.
GetOrdersClient(st, otp_code, r) ==
  IF FastPath(st.orders_client, st.pending)
  THEN [st |-> st, exc |-> NoExc, ret |-> st.orders_client, logins |-> 0,
        attempt |-> NoAttempt]
  ELSE IF ~Truthy(username) \/ ~Truthy(password)
  THEN [st |-> st, exc |-> CredsValueError(username, password), ret |-> NoClient,
        logins |-> 0, attempt |-> NoAttempt]
  ELSE LET sid == st.loginCalls + 1
           att == [io |-> r.io, issued |-> r.issued, answers |-> r.answers,
                   final |-> r.final]
       IN IF r.exc = NoExc
          THEN [st |-> [session |-> [id |-> sid, authenticated |-> TRUE],
                        orders_client |-> [session |-> sid],
                        pending |-> PendingAfterSuccess(st.pending),
                        loginCalls |-> sid],
                exc |-> NoExc, ret |-> [session |-> sid], logins |-> 1, attempt |-> att]
          ELSE [st |-> [session |-> [id |-> sid, authenticated |-> FALSE],
                        orders_client |-> st.orders_client,
                        pending |-> PendingAfterFailure(st.pending, r.exc, r.io),
                        loginCalls |-> sid],
                exc |-> r.exc, ret |-> NoClient, logins |-> 1, attempt |-> att]

\* ----------------------------------------------------------- returned strings
\* A returned string is its leading tag (the text before the first ":", or
\* the whole fixed sentence) and the set of phrases its remainder contains.
Success == [tag |-> "Successfully logged in to Amazon.", text |-> {}]

\* The value of a call that raised instead of returning.
NoResult == [tag |-> "none", text |-> {}]

\* json.dumps(...) of the normalized orders.
JsonResult == [tag |-> "JSON", text |-> {}]

\* The phrase a traceback contributes to a returned string.
Traceback == {"Traceback (most recent call last)"}

\* The except branches of amazon_login: the string returned for exception e.
LoginErrorResult(e, otp_code, debug) ==
  IF e.type = "OTPRequiredError"
  THEN [tag |-> "OTP_REQUIRED", text |-> {"call amazon_login again with the otp_code parameter"}]
  ELSE IF "Authentication attempts exhausted" \in e.phrases
  THEN [tag |-> "AUTH_FAILED",
        text |-> {IF Truthy(otp_code) THEN "OTP code provided: yes" ELSE "OTP code provided: no"}
                 \cup (IF debug THEN Traceback ELSE e.phrases)]
  ELSE [tag |-> "Login failed", text |-> e.phrases \cup (IF debug THEN Traceback ELSE {})]

\* _handle_auth_error
HandleAuthError(e) ==
  IF "OTP_REQUIRED" \in e.phrases \/ e.type = "OTPRequiredError"
  THEN [tag |-> "NOT_LOGGED_IN", text |-> {"You must call amazon_login first"}]
  ELSE IF "AMAZON_USERNAME" \in e.phrases \/ "AMAZON_PASSWORD" \in e.phrases
  THEN [tag |-> "CONFIG_ERROR", text |-> e.phrases]
  ELSE IF "Authentication attempts exhausted" \in e.phrases
  THEN [tag |-> "AUTH_FAILED", text |-> {"Call amazon_login first"}]
  ELSE [tag |-> "Error", text |-> e.phrases]

\* ------------------------------------------------------------ time selector
\* An Optional[int] is a sequence of at most one integer.
Years == {<<>>, <<0>>, <<2024>>}

\* Values of the time_filter argument.
TimeFilters == {None, "", "last30"}

\* datetime.now().year
CurrentYear == 2026

\* The arguments of a call that takes no time selector.
NoArgs == [full_details |-> FALSE, year |-> <<>>, time_filter |-> None]

\* The kwargs of a call that made no provider query.
NoKwargs == [full_details |-> FALSE, time_filter |-> None, year |-> <<>>]

\* The if/elif/else choosing the time selector of get_order_history(**kwargs);
\* an absent key is None, respectively the empty sequence.
QueryKwargs(full_details, year, time_filter) ==
  IF Truthy(time_filter)
  THEN [full_details |-> full_details, time_filter |-> time_filter, year |-> <<>>]
  ELSE IF year # <<>> /\ year[1] # 0
  THEN [full_details |-> full_details, time_filter |-> None, year |-> year]
  ELSE [full_details |-> full_details, time_filter |-> None, year |-> <<CurrentYear>>]

\* ---------------------------------------------------------------- handlers
\* Values of the order_id argument of amazon_get_order.
OrderIds == {"111-1234567-1234567"}

\* Values of the search_term argument of amazon_search_orders.
SearchTerms == {"headphones"}

\* The three query tools.
QueryTools == {"amazon_get_order_history", "amazon_get_order", "amazon_search_orders"}

\* Only _session = None: the cached client is kept.
ResetSessionKeepClient(st) == [st EXCEPT !.session = NoSession]

\* _orders_client = None; _session = None, kept as they are.
ResetSessionSkipped(st) == st

\* _orders_client = None; _session = None
ResetSession(st) == [st EXCEPT !.session = NoSession, !.orders_client = NoClient]

\* The globals as the three named states of the state machine.
AuthStateOf(client, pending) ==
  IF pending /\ client = NoClient THEN "OtpPending"
  ELSE IF ~pending /\ client # NoClient THEN "LoggedIn"
  ELSE IF ~pending /\ client = NoClient THEN "LoggedOut"
  ELSE "Undefined"

AuthState == AuthStateOf(orders_client, pending_otp_request)

\* The record of a tool call, as kept in  last.
CallRecord(op, otp_code, debug, r, raised, result, queries, args, kwargs) ==
  [op |-> op, otp_code |-> otp_code, debug |-> debug,
   pre |-> [session |-> session, orders_client |-> orders_client,
            pending |-> pending_otp_request],
   exc |-> r.exc, raised |-> raised, result |-> result,
   logins |-> r.logins, attempt |-> r.attempt, obtained |-> r.ret,
   queries |-> queries, args |-> args, kwargs |-> kwargs]

\* amazon_login(otp_code, debug)
AmazonLogin ==
  \E otp_code \in OtpCodes, debug \in BOOLEAN :
  \E run \in LoginRunsAt(ResetSession(Cur), otp_code) :
  \E r \in {GetOrdersClient(ResetSession(Cur), otp_code, run)} :
  \E pendingAfter \in {IF r.exc.type = "OTPRequiredError" THEN TRUE ELSE r.st.pending},
     result \in {IF r.exc = NoExc THEN Success
                 ELSE LoginErrorResult(r.exc, otp_code, debug)} :
       /\ r.st.loginCalls <= MaxLogins
       /\ session' = r.st.session
       /\ orders_client' = r.st.orders_client
       /\ pending_otp_request' = pendingAfter
       /\ loginCalls' = r.st.loginCalls
       /\ last' = CallRecord("amazon_login", otp_code, debug, r, FALSE, result,
                             0, NoArgs, NoKwargs)
       /\ sinceLogin' = [ok |-> result = Success, client |-> r.ret,
                         loginCalls |-> r.st.loginCalls]
       /\ UNCHANGED <<username, password, facade, calls, objects>>

\* The part the three query tools share: get_orders_client() under try, then
\* the provider query outside it.  argsSet holds the values of the tool's
\* arguments (full_details as the tool passes it on); kwargs is meaningful
\* for the tools that take a time selector (selects).  The provider's answer
\* queryOk is drawn once the client is obtained; when the provider query
\* raises, the exception leaves the tool.  The value is the set of possible
\* outcomes: the globals afterwards and the call's record.
QueryTool(op, argsSet, selects) ==
  UNION {
    LET r == GetOrdersClient(Cur, None, run)
    IN { [st |-> r.st,
          call |-> CallRecord(op, None, FALSE,
                     [r EXCEPT !.exc = IF queryOk THEN r.exc ELSE ProviderQueryError],
                     ~queryOk,
                     IF r.exc # NoExc THEN HandleAuthError(r.exc)
                     ELSE IF queryOk THEN JsonResult ELSE NoResult,
                     IF r.exc = NoExc THEN 1 ELSE 0,
                     args,
                     IF r.exc = NoExc /\ selects
                     THEN QueryKwargs(args.full_details, args.year, args.time_filter)
                     ELSE NoKwargs)] :
           queryOk \in (IF r.exc = NoExc THEN BOOLEAN ELSE {TRUE}),
           args \in argsSet }
    : run \in LoginRunsAt(Cur, None) }

\* amazon_get_order_history(year, time_filter, full_details)
AmazonGetOrderHistory ==
  \E full_details \in BOOLEAN :
  \E c \in QueryTool("amazon_get_order_history",
                    [full_details : {full_details}, year : Years,
                     time_filter : TimeFilters], TRUE) :
    /\ c.st.loginCalls <= MaxLogins
    /\ session' = c.st.session
    /\ orders_client' = c.st.orders_client
    /\ pending_otp_request' = c.st.pending
    /\ loginCalls' = c.st.loginCalls
    /\ last' = c.call
    /\ UNCHANGED <<username, password, sinceLogin, facade, calls, objects>>

\* amazon_get_order(order_id)
AmazonGetOrder ==
  \E order_id \in OrderIds :
  \E c \in QueryTool("amazon_get_order", {NoArgs}, FALSE) :
    /\ c.st.loginCalls <= MaxLogins
    /\ session' = c.st.session
    /\ orders_client' = c.st.orders_client
    /\ pending_otp_request' = c.st.pending
    /\ loginCalls' = c.st.loginCalls
    /\ last' = c.call
    /\ UNCHANGED <<username, password, sinceLogin, facade, calls, objects>>

\* amazon_search_orders(search_term, year, time_filter)
AmazonSearchOrders ==
  \E search_term \in SearchTerms :
  \E c \in QueryTool("amazon_search_orders",
                    [full_details : {TRUE}, year : Years,
                     time_filter : TimeFilters], TRUE) :
    /\ c.st.loginCalls <= MaxLogins
    /\ session' = c.st.session
    /\ orders_client' = c.st.orders_client
    /\ pending_otp_request' = c.st.pending
    /\ loginCalls' = c.st.loginCalls
    /\ last' = c.call
    /\ UNCHANGED <<username, password, sinceLogin, facade, calls, objects>>

\* No application of the search or of order_to_dict under way.
NoFacade == [stage |-> "none", fn |-> "none"]

\* The callers whose tool calls may overlap.
Callers == {1, 2}

\* The position of a call that is not in progress.
Idle ==
  [pc |-> "idle", op |-> "none", otp_code |-> None, mine |-> 0,
   otp_requested |-> FALSE, exc |-> "none", built |-> <<>>]

\* No tool call in progress.
NoCalls == [p \in Callers |-> Idle]

\* No AmazonSession constructed, or none logged in.
NoObjects == [id \in 1..MaxLogins |-> [logins |-> 0, authenticated |-> FALSE]]

\* The call record before any call.
NoCall ==
  [op |-> "none", otp_code |-> None, debug |-> FALSE,
   pre |-> [session |-> NoSession, orders_client |-> NoClient, pending |-> FALSE],
   exc |-> NoExc, raised |-> FALSE, result |-> NoResult,
   logins |-> 0, attempt |-> NoAttempt, obtained |-> NoClient,
   queries |-> 0, args |-> NoArgs, kwargs |-> NoKwargs]

\* The module's globals at import; the environment is whatever the process
\* was started with and is not changed by the program.
Init ==
  /\ username \in EnvValues
  /\ password \in EnvValues
  /\ session = NoSession
  /\ orders_client = NoClient
  /\ pending_otp_request = FALSE
  /\ loginCalls = 0
  /\ last = NoCall
  /\ sinceLogin = [ok |-> FALSE, client |-> NoClient, loginCalls |-> 0]
  /\ facade = NoFacade
  /\ calls = NoCalls
  /\ objects = NoObjects

Next ==
  \/ AmazonLogin
  \/ AmazonGetOrderHistory
  \/ AmazonGetOrder
  \/ AmazonSearchOrders

Spec == Init /\ [][Next]_vars

\* ------------------------------------------- orders, search, normalisation
\* An attribute the provider may leave unset is <<>> when it is None or
\* missing (getattr(..., None)) and <<v>> when it carries the value v.

\* The optional_fields list of order_to_dict.
OptionalFields ==
  {"subtotal", "shipping_total", "estimated_tax", "total_before_tax",
   "refund_total", "promotion_applied", "coupon_savings",
   "subscription_discount", "multibuy_discount", "amazon_discount",
   "reward_points", "gift_card", "payment_method", "payment_method_last_4"}

\* The keys of an item the provider may leave unset besides its title.
ItemOptionalFields == {"price", "link", "seller", "condition"}

\* JSON values: null, str(v), and a value passed through as it is.
JNull == [json |-> "null"]
JStr(v) == [json |-> "str", of |-> v]
JRaw(v) == [json |-> "raw", of |-> v]

\* An attribute passed through as it is: None becomes null.
Raw(o) == IF o = <<>> THEN JNull ELSE JRaw(o[1])

\* str(x) if x else None  for an amount: 0 is falsy.
StrIfTruthy(o) == IF o # <<>> /\ o[1] # 0 THEN JStr(o[1]) ELSE JNull

\* item_to_dict
ItemToDict(item) ==
  [k \in {"title", "price", "quantity", "link", "seller", "condition"} |->
     CASE k = "title" -> Raw(item.title)
       [] k = "price" -> StrIfTruthy(item.price)
       [] k = "quantity" -> JRaw(item.quantity)
       [] k = "link" -> Raw(item.link)
       [] k = "seller" -> IF item.seller # <<>> THEN Raw(item.seller[1].name)
                          ELSE JNull
       [] OTHER -> Raw(item.condition)]

\* order_to_dict
OrderToDict(order) ==
  [k \in {"order_number", "order_placed_date", "grand_total"}
         \cup {f \in OptionalFields : order.optional[f] # <<>>}
         \cup (IF order.recipient # <<>> THEN {"recipient"} ELSE {})
         \cup (IF order.items # <<>> THEN {"items"} ELSE {}) |->
     CASE k = "order_number" -> JRaw(order.order_number)
       [] k = "order_placed_date" ->
            IF order.order_placed_date # <<>>
            THEN JStr(order.order_placed_date[1]) ELSE JNull
       [] k = "grand_total" -> StrIfTruthy(order.grand_total)
       [] k = "recipient" -> [name |-> Raw(order.recipient[1].name),
                              address |-> Raw(order.recipient[1].address)]
       [] k = "items" -> [i \in 1..Len(order.items) |-> ItemToDict(order.items[i])]
       [] OTHER -> JStr(order.optional[k][1])]

\* The item test of the search with the title not lower-cased.
TitleMatchesCaseSensitive(title, search_lower) ==
  /\ title # <<>>
  /\ title[1] # <<>>
  /\ Contains(search_lower, title[1])

\* item.title and search_lower in item.title.lower()
TitleMatches(title, search_lower) ==
  /\ title # <<>>
  /\ title[1] # <<>>
  /\ Contains(search_lower, Lower(title[1]))

\* The inner loop of the search from item i on: the order is appended at the
\* first matching item and the loop is left.
RECURSIVE ItemLoop(_, _, _)
ItemLoop(order, i, search_lower) ==
  IF i > Len(order.items) THEN <<>>
  ELSE IF TitleMatches(order.items[i].title, search_lower) THEN <<order>>
  ELSE ItemLoop(order, i + 1, search_lower)

\* The outer loop of the search from order i on.
RECURSIVE OrderLoop(_, _, _)
OrderLoop(orders, i, search_lower) ==
  IF i > Len(orders) THEN <<>>
  ELSE (IF orders[i].items # <<>> THEN ItemLoop(orders[i], 1, search_lower)
        ELSE <<>>)
       \o OrderLoop(orders, i + 1, search_lower)

\* amazon_search_orders once the client is there: the provider is asked with
\* kwargs, answers orders, and the matching orders are normalised.
SearchOrders(search_term, year, time_filter, orders) ==
  LET matching_orders == OrderLoop(orders, 1, Lower(search_term))
  IN [kwargs |-> QueryKwargs(TRUE, year, time_filter),
      matching_orders |-> matching_orders,
      result |-> [i \in 1..Len(matching_orders) |-> OrderToDict(matching_orders[i])]]

\* Item titles: None, "", "Hp".
Titles == {<<>>, << <<>> >>, << <<"H", "p">> >>}

\* Search terms: "", "hP", "x".
SearchTexts == {<<>>, <<"h", "P">>, <<"x">>}

\* An item with nothing but its title and quantity.
BareItem(title) ==
  [title |-> title, price |-> <<>>, quantity |-> 1, link |-> <<>>,
   seller |-> <<>>, condition |-> <<>>]

\* An order with nothing but its number and items.
BareOrder(items) ==
  [order_number |-> "112-1", order_placed_date |-> <<>>, grand_total |-> <<>>,
   optional |-> [f \in OptionalFields |-> <<>>], recipient |-> <<>>,
   items |-> items]

\* The item lists of at most n items drawn from items.
ItemLists(items, n) == UNION {[1..k -> items] : k \in 0..n}

\* The orders the provider may answer to the search, one by one.
SearchableOrders ==
  {BareOrder(items) : items \in ItemLists({BareItem(t) : t \in Titles}, MaxItems)}

\* Amounts, 0 among them.
Amounts == {0, 1250}

\* Items with their optional attributes set or not.
FullItems ==
  {[title |-> << <<"x">> >>, price |-> price, quantity |-> 1, link |-> link,
    seller |-> seller, condition |-> condition] :
     price \in {<<>>} \cup {<<a>> : a \in Amounts},
     link \in {<<>>, <<"https://www.amazon.com/dp/B0">>},
     seller \in {<<>>, <<[name |-> <<>>]>>, <<[name |-> <<"Acme">>]>>},
     condition \in {<<>>, <<"New">>}}

\* The orders order_to_dict is applied to: the order's own attributes set or
\* not without items, and items of every kind on an order with nothing else.
NormOrders ==
  {[order_number |-> "112-1", order_placed_date |-> date, grand_total |-> total,
    optional |-> [f \in OptionalFields |-> IF f \in set THEN <<value>> ELSE <<>>],
    recipient |-> recipient, items |-> <<>>] :
     date \in {<<>>, <<"2024-05-01">>},
     total \in {<<>>} \cup {<<a>> : a \in Amounts},
     set \in {{}, OptionalFields} \cup {{f} : f \in OptionalFields},
     value \in Amounts,
     recipient \in {<<>>, <<[name |-> <<>>, address |-> <<>>]>>,
                    <<[name |-> <<"J. Doe">>, address |-> <<"1 Main St">>]>>}}
  \cup {BareOrder(items) : items \in ItemLists(FullItems, MaxItems)}

\* The search before it runs.
SearchInput(search_term, year, time_filter, orders) ==
  [stage |-> "in", fn |-> "amazon_search_orders", search_term |-> search_term,
   year |-> year, time_filter |-> time_filter, orders |-> orders]

\* order_to_dict before it runs.
NormInput(order) == [stage |-> "in", fn |-> "order_to_dict", order |-> order]

\* The search runs on the provider's answer.
ApplySearchOrders ==
  /\ facade.stage = "in"
  /\ facade.fn = "amazon_search_orders"
  /\ \E r \in {SearchOrders(facade.search_term, facade.year,
                            facade.time_filter, facade.orders)} :
       facade' = [stage |-> "out", fn |-> facade.fn,
                  search_term |-> facade.search_term, orders |-> facade.orders,
                  kwargs |-> r.kwargs, matching_orders |-> r.matching_orders,
                  result |-> r.result]
  /\ UNCHANGED <<username, password, session, orders_client,
                 pending_otp_request, loginCalls, last, sinceLogin,
                 calls, objects>>

\* order_to_dict runs on an order.
ApplyOrderToDict ==
  /\ facade.stage = "in"
  /\ facade.fn = "order_to_dict"
  /\ facade' = [stage |-> "out", fn |-> facade.fn, order |-> facade.order,
                result |-> OrderToDict(facade.order)]
  /\ UNCHANGED <<username, password, session, orders_client,
                 pending_otp_request, loginCalls, last, sinceLogin,
                 calls, objects>>

InitFacade ==
  /\ username = "value"
  /\ password = "value"
  /\ session = NoSession
  /\ orders_client = NoClient
  /\ pending_otp_request = FALSE
  /\ loginCalls = 0
  /\ last = NoCall
  /\ sinceLogin = [ok |-> FALSE, client |-> NoClient, loginCalls |-> 0]
  /\ \/ \E n \in 0..MaxOrders :
          \E orders \in [1..n -> SearchableOrders], search_term \in SearchTexts :
            facade = SearchInput(search_term, <<>>, None, orders)
     \/ \E order \in NormOrders : facade = NormInput(order)
  /\ calls = NoCalls
  /\ objects = NoObjects

NextFacade ==
  \/ ApplySearchOrders
  \/ ApplyOrderToDict

SpecFacade == InitFacade /\ [][NextFacade]_vars

\* ------------------------------------------------------- overlapping calls
\* Two tool calls in progress at once, each advancing one statement at a
\* time: the code takes no lock, so the statements of the two calls that
\* read or write the globals interleave in any order.
\* The values of otp_code of overlapping amazon_login calls.
OverlapOtpCodes == {None, "123456"}

\* The outcomes of the provider's login() under MCPIOHandler(otp_code) that
\* the except branches tell apart: the exception's type and the handler's flag.
LoginOutcomes(otp_code) ==
  {[exc |-> IF r.exc = NoExc THEN "none" ELSE r.exc.type,
    otp_requested |-> r.io.otp_requested] : r \in LoginRuns[otp_code]}

\* The call of caller p moved to position pc.
At(p, pc) == [calls EXCEPT ![p].pc = pc]

\* The call of caller p raising an exception of type exc out of
\* get_orders_client.
Raise(p, exc) == [calls EXCEPT ![p].pc = "return", ![p].exc = exc]

\* A tool call arrives while the other caller may be anywhere in its own.
Call(p) ==
  /\ calls[p].pc = "idle"
  /\ \E op \in {"amazon_login"} \cup QueryTools :
       \E otp_code \in (IF op = "amazon_login" THEN OverlapOtpCodes ELSE {None}) :
         calls' = [calls EXCEPT ![p] =
                     [Idle EXCEPT !.pc = IF op = "amazon_login" THEN "116" ELSE "62",
                                  !.op = op, !.otp_code = otp_code]]
  /\ UNCHANGED <<session, orders_client, pending_otp_request, loginCalls, objects>>
  /\ UNCHANGED <<username, password, last, sinceLogin, facade>>

\* amazon_login: _orders_client = None
ResetClient(p) ==
  /\ calls[p].pc = "116"
  /\ orders_client' = NoClient
  /\ calls' = At(p, "117")
  /\ UNCHANGED <<session, pending_otp_request, loginCalls, objects>>
  /\ UNCHANGED <<username, password, last, sinceLogin, facade>>

\* amazon_login: _session = None
ResetSessionHandle(p) ==
  /\ calls[p].pc = "117"
  /\ session' = NoSession
  /\ calls' = At(p, "62")
  /\ UNCHANGED <<orders_client, pending_otp_request, loginCalls, objects>>
  /\ UNCHANGED <<username, password, last, sinceLogin, facade>>

\* get_orders_client: the test of the fast path.
TestFastPath(p) ==
  /\ calls[p].pc = "62"
  /\ calls' = At(p, IF FastPath(orders_client, pending_otp_request) THEN "63" ELSE "65")
  /\ UNCHANGED <<session, orders_client, pending_otp_request, loginCalls, objects>>
  /\ UNCHANGED <<username, password, last, sinceLogin, facade>>

\* get_orders_client: return _orders_client, read again from the global.
ReturnCached(p) ==
  /\ calls[p].pc = "63"
  /\ calls' = At(p, "return")
  /\ UNCHANGED <<session, orders_client, pending_otp_request, loginCalls, objects>>
  /\ UNCHANGED <<username, password, last, sinceLogin, facade>>

\* get_orders_client: the credentials are read and tested.
ReadCredentials(p) ==
  /\ calls[p].pc = "65"
  /\ calls' = IF Truthy(username) /\ Truthy(password) THEN At(p, "77")
              ELSE Raise(p, "ValueError")
  /\ UNCHANGED <<session, orders_client, pending_otp_request, loginCalls, objects>>
  /\ UNCHANGED <<username, password, last, sinceLogin, facade>>

\* get_orders_client: io_handler = MCPIOHandler(otp_code) and
\* _session = AmazonSession(...)
NewSession(p) ==
  /\ calls[p].pc = "77"
  /\ loginCalls < MaxLogins
  /\ loginCalls' = loginCalls + 1
  /\ session' = [id |-> loginCalls + 1, authenticated |-> FALSE]
  /\ calls' = At(p, "86")
  /\ UNCHANGED <<orders_client, pending_otp_request, objects>>
  /\ UNCHANGED <<username, password, last, sinceLogin, facade>>

\* get_orders_client: _session.login() is entered on the object the global
\* names now; on None the attribute access raises.
EnterLogin(p) ==
  /\ calls[p].pc = "86"
  /\ IF session = NoSession
     THEN /\ calls' = Raise(p, "AttributeError")
          /\ UNCHANGED objects
     ELSE /\ calls' = [calls EXCEPT ![p].pc = "login", ![p].mine = session.id]
          /\ objects' = [objects EXCEPT ![session.id].logins = @ + 1]
  /\ UNCHANGED <<session, orders_client, pending_otp_request, loginCalls>>
  /\ UNCHANGED <<username, password, last, sinceLogin, facade>>

\* get_orders_client: _session.login() returns or raises.
LeaveLogin(p) ==
  /\ calls[p].pc = "login"
  /\ \E r \in LoginOutcomes(calls[p].otp_code) :
       /\ calls' = [calls EXCEPT
                      ![p].pc = IF r.exc = "none" THEN "87"
                                ELSE IF r.exc = "OTPRequiredError" THEN "89" ELSE "91",
                      ![p].exc = r.exc,
                      ![p].otp_requested = r.otp_requested]
       /\ objects' = [objects EXCEPT
                        ![calls[p].mine].logins = @ - 1,
                        ![calls[p].mine].authenticated = IF r.exc = "none" THEN TRUE ELSE @]
       /\ session' = IF session.id = calls[p].mine /\ r.exc = "none"
                     THEN [session EXCEPT !.authenticated = TRUE] ELSE session
  /\ UNCHANGED <<orders_client, pending_otp_request, loginCalls>>
  /\ UNCHANGED <<username, password, last, sinceLogin, facade>>

\* get_orders_client: _pending_otp_request = False
ClearPending(p) ==
  /\ calls[p].pc = "87"
  /\ pending_otp_request' = PendingAfterSuccess(pending_otp_request)
  /\ calls' = At(p, "96")
  /\ UNCHANGED <<session, orders_client, loginCalls, objects>>
  /\ UNCHANGED <<username, password, last, sinceLogin, facade>>

\* get_orders_client: except OTPRequiredError
ExceptOtpRequired(p) ==
  /\ calls[p].pc = "89"
  /\ pending_otp_request' = TRUE
  /\ calls' = At(p, "return")
  /\ UNCHANGED <<session, orders_client, loginCalls, objects>>
  /\ UNCHANGED <<username, password, last, sinceLogin, facade>>

\* get_orders_client: except Exception
ExceptOther(p) ==
  /\ calls[p].pc = "91"
  /\ IF calls[p].otp_requested
     THEN /\ pending_otp_request' = TRUE
          /\ calls' = Raise(p, "OTPRequiredError")
     ELSE /\ UNCHANGED pending_otp_request
          /\ calls' = At(p, "return")
  /\ UNCHANGED <<session, orders_client, loginCalls, objects>>
  /\ UNCHANGED <<username, password, last, sinceLogin, facade>>

\* get_orders_client: _orders_client = AmazonOrders(_session), on the object
\* the global names now; on None the constructor's attribute access raises.
\* built records the session wrapped, the session this call logged in and
\* whether the wrapped session's login() had succeeded and none was running.
BuildClient(p) ==
  /\ calls[p].pc = "96"
  /\ IF session = NoSession
     THEN /\ calls' = Raise(p, "AttributeError")
          /\ UNCHANGED orders_client
     ELSE /\ orders_client' = [session |-> session.id]
          /\ calls' = [calls EXCEPT
                         ![p].pc = "return",
                         ![p].built = <<[session |-> session.id,
                                         mine |-> calls[p].mine,
                                         logged_in |-> /\ objects[session.id].authenticated
                                                       /\ objects[session.id].logins = 0]>>]
  /\ UNCHANGED <<session, pending_otp_request, loginCalls, objects>>
  /\ UNCHANGED <<username, password, last, sinceLogin, facade>>

\* The tool's own end: amazon_login sets the flag again for OTPRequiredError
\* and returns its string; a query tool asks the provider with the client it
\* got, or returns _handle_auth_error's string.
Return(p) ==
  /\ calls[p].pc = "return"
  /\ pending_otp_request' =
       IF calls[p].op = "amazon_login" /\ calls[p].exc = "OTPRequiredError"
       THEN TRUE ELSE pending_otp_request
  /\ calls' = [calls EXCEPT ![p] = Idle]
  /\ UNCHANGED <<session, orders_client, loginCalls, objects>>
  /\ UNCHANGED <<username, password, last, sinceLogin, facade>>

InitConcurrent ==
  /\ username \in EnvValues
  /\ password \in EnvValues
  /\ session = NoSession
  /\ orders_client = NoClient
  /\ pending_otp_request = FALSE
  /\ loginCalls = 0
  /\ last = NoCall
  /\ sinceLogin = [ok |-> FALSE, client |-> NoClient, loginCalls |-> 0]
  /\ facade = NoFacade
  /\ calls = NoCalls
  /\ objects = NoObjects

NextConcurrent ==
  \E p \in Callers :
    \/ Call(p)
    \/ ResetClient(p)
    \/ ResetSessionHandle(p)
    \/ TestFastPath(p)
    \/ ReturnCached(p)
    \/ ReadCredentials(p)
    \/ NewSession(p)
    \/ EnterLogin(p)
    \/ LeaveLogin(p)
    \/ ClearPending(p)
    \/ ExceptOtpRequired(p)
    \/ ExceptOther(p)
    \/ BuildClient(p)
    \/ Return(p)

SpecConcurrent == InitConcurrent /\ [][NextConcurrent]_vars

\* ------------------------------------------------------------- vocabulary
\* The named state the most recent call started from.
PreState == AuthStateOf(last.pre.orders_client, last.pre.pending)

\* Both credentials are present.
CredsPresent == Truthy(username) /\ Truthy(password)

\* The most recent call made a provider login() that raised something other
\* than the clean OTP signal.
AttemptFailedOtherwise ==
  /\ last.logins = 1
  /\ last.attempt.final # "ok"
  /\ last.exc # NoExc
  /\ last.exc.type # "OTPRequiredError"

\* An OTP-pattern prompt was issued during the most recent call's attempt.
OtpPromptIssued ==
  \E i \in 1..Len(last.attempt.issued) : IsOtpPrompt(last.attempt.issued[i])

\* The tags of the fixed vocabulary of non-success outcomes.
ErrorTags == {"NOT_LOGGED_IN", "CONFIG_ERROR", "AUTH_FAILED", "OTP_REQUIRED"}

\* ------------------------------------------------------------------ claims
\* C1: a query tool called in state LoggedOut returns the NOT_LOGGED_IN
\* outcome and makes no call to the provider (no login(), no order query).
\* The claim covers every credential state; it is stated here for a process
\* started with both credentials set, where the provider can be reached.
C1_LoggedOutQueryNoProvider ==
  (last.op \in QueryTools /\ PreState = "LoggedOut" /\ CredsPresent)
    => /\ last.result.tag = "NOT_LOGGED_IN"
       /\ last.logins = 0
       /\ last.queries = 0

\* C2: after an amazon_login that returned success, and until the next
\* amazon_login, every query tool call obtains the client cached by that
\* login and the provider's login() counter keeps the value it had when the
\* login returned.
C2_CachedClientNoRelogin ==
  sinceLogin.ok
    => /\ loginCalls = sinceLogin.loginCalls
       /\ orders_client = sinceLogin.client
       /\ (last.op \in QueryTools
             => last.obtained = sinceLogin.client /\ last.logins = 0)

\* C2 witness: a query tool call served after a successful amazon_login.
C2_Witness ==
  /\ sinceLogin.ok
  /\ last.op \in QueryTools
  /\ last.queries = 1
  /\ last.obtained = sinceLogin.client
  /\ loginCalls < MaxLogins

\* C3: an amazon_login without a code during which an OTP-pattern prompt is
\* issued ends in OtpPending and returns OTP_REQUIRED; an amazon_login with a
\* code made from OtpPending runs one provider login() on a new session under
\* a new interceptor, answers every OTP-pattern prompt with exactly that
\* code, and ends in LoggedIn (flag clear) when the provider succeeds.
C3_OtpRoundTrip ==
  /\ (last.op = "amazon_login" /\ ~Truthy(last.otp_code) /\ OtpPromptIssued)
       => /\ AuthState = "OtpPending"
          /\ last.result.tag = "OTP_REQUIRED"
  /\ (last.op = "amazon_login" /\ Truthy(last.otp_code) /\ PreState = "OtpPending")
       => /\ last.logins = 1
          /\ session.id = loginCalls
          /\ session.id > last.pre.session.id
          /\ last.attempt.io.otp_code = last.otp_code
          /\ last.attempt.io.otp_requested = OtpPromptIssued
          /\ \A i \in 1..Len(last.attempt.answers) : last.attempt.answers[i] = last.otp_code
          /\ \A i \in 1..Len(last.attempt.issued) :
               IsOtpPrompt(last.attempt.issued[i]) => i <= Len(last.attempt.answers)
          /\ (last.attempt.final = "ok"
                => /\ AuthState = "LoggedIn"
                   /\ ~pending_otp_request
                   /\ last.result = Success)

\* C3 witness: a login with a code, made from OtpPending, whose OTP prompt
\* was answered and whose provider login succeeded.
C3_Witness ==
  /\ last.op = "amazon_login"
  /\ Truthy(last.otp_code)
  /\ PreState = "OtpPending"
  /\ last.pre.session.id > 0
  /\ OtpPromptIssued
  /\ last.attempt.answers # <<>>
  /\ last.attempt.final = "ok"
  /\ AuthState = "LoggedIn"

\* C4: every amazon_login discards the cached session and client first: with
\* both credentials present it calls the provider's login() exactly once,
\* the earlier session is never the stored one afterwards, and unless the
\* call succeeds no order client is cached afterwards.
C4_LoginAlwaysFresh ==
  last.op = "amazon_login"
    => /\ (CredsPresent => last.logins = 1)
       /\ (session = NoSession \/ session.id > last.pre.session.id)
       /\ (last.result # Success => orders_client = NoClient)
       /\ (orders_client # NoClient => orders_client # last.pre.orders_client)
       /\ (~CredsPresent => session = NoSession /\ orders_client = NoClient)

\* C4 witness: an amazon_login made in state LoggedIn whose attempt failed.
C4_Witness ==
  /\ last.op = "amazon_login"
  /\ PreState = "LoggedIn"
  /\ last.logins = 1
  /\ last.result # Success
  /\ orders_client = NoClient

\* C5: with a credential missing, amazon_login returns the CONFIG_ERROR
\* outcome naming exactly which credentials are unset, without calling the
\* provider's login().
C5_LoginConfigError ==
  (last.op = "amazon_login" /\ ~CredsPresent)
    => /\ last.result.tag = "CONFIG_ERROR"
       /\ (IF Truthy(username) THEN "username=set" ELSE "username=NOT SET") \in last.result.text
       /\ (IF Truthy(password) THEN "password=set" ELSE "password=NOT SET") \in last.result.text
       /\ last.logins = 0

\* C6: no tool call raises past its boundary; every failure is returned as a
\* string.
C6_NothingRaised ==
  /\ ~last.raised
  /\ (last.op # "none" => last.result # NoResult)

\* C7: every non-success outcome carries a tag of the fixed vocabulary, and
\* amazon_login returns only success, OTP_REQUIRED or AUTH_FAILED for
\* provider failures.  Stated for a process started with both credentials
\* set (the outcome for missing credentials is C5's).
C7_FixedVocabulary ==
  CredsPresent
    => /\ (last.op # "none" /\ ~last.raised /\ last.result \notin {Success, JsonResult})
            => last.result.tag \in ErrorTags
       /\ (last.op = "amazon_login" /\ last.logins = 1)
            => \/ last.result = Success
               \/ last.result.tag \in {"OTP_REQUIRED", "AUTH_FAILED"}

\* C8: the state leaves OtpPending only to LoggedIn by an amazon_login that
\* carries a code, or to LoggedOut on a failure; no query tool call and no
\* amazon_login without a code moves it out of OtpPending.
C8_LeavesOtpPendingOnlyByCode ==
  /\ (PreState = "OtpPending" /\ AuthState # "OtpPending")
       => \/ /\ last.op = "amazon_login"
             /\ Truthy(last.otp_code)
             /\ AuthState = "LoggedIn"
          \/ /\ AuthState = "LoggedOut"
             /\ last.exc # NoExc
  /\ (PreState = "OtpPending" /\ (last.op \in QueryTools \/ ~Truthy(last.otp_code)))
       => AuthState = "OtpPending"

\* C9: a login attempt that fails otherwise than by the clean OTP signal,
\* with no OTP request recorded by the interceptor, leaves the state
\* LoggedOut from every prior state and hands the failure to the caller.
C9_FailureWithoutOtpLogsOut ==
  (AttemptFailedOtherwise /\ ~last.attempt.io.otp_requested)
    => /\ AuthState = "LoggedOut"
       /\ last.result.tag \notin {"none", "JSON"}
       /\ last.result # Success

\* C10: a login attempt that fails otherwise than by the clean OTP signal,
\* with an OTP request recorded by the interceptor during that attempt,
\* leaves the state OtpPending, from every prior state.
C10_FailureAfterOtpStaysPending ==
  (AttemptFailedOtherwise /\ last.attempt.io.otp_requested)
    => AuthState = "OtpPending"

\* C10 witness: a supplied code was used for an OTP prompt, the provider then
\* failed, and the OTP-pending flag was clear before the call.
C10_Witness ==
  /\ AttemptFailedOtherwise
  /\ last.attempt.io.otp_requested
  /\ last.attempt.answers # <<>>
  /\ ~last.pre.pending
  /\ AuthState = "OtpPending"

\* C11: a query tool call leaves the authentication state as it found it:
\* the cached session handle, the cached order client and the OTP-pending
\* flag have the same values after the call as before it.
C11_QueryLeavesAuthState ==
  last.op \in QueryTools
    => /\ session = last.pre.session
       /\ orders_client = last.pre.orders_client
       /\ pending_otp_request = last.pre.pending

\* C18: whenever an order client is cached, the stored session handle is
\* non-empty, the client wraps exactly that session, and that session's
\* login() succeeded.
C18_ClientHasItsSession ==
  orders_client # NoClient
    => /\ session # NoSession
       /\ orders_client.session = session.id
       /\ session.authenticated

\* C18 witness: a client cached by a later login than the first, after the
\* earlier session was replaced.
C18_Witness ==
  /\ orders_client # NoClient
  /\ session.id >= 2
  /\ last.pre.session # NoSession
  /\ last.pre.session.id < session.id

\* C19: the OTP-pending flag and a cached order client never coexist.
C19_FlagExcludesClient ==
  /\ pending_otp_request => orders_client = NoClient
  /\ AuthState \in {"LoggedOut", "OtpPending", "LoggedIn"}
  /\ orders_client # NoClient => AuthState = "LoggedIn"

\* C19 witness: the flag was set by a call that started with a cached client.
C19_Witness ==
  /\ pending_otp_request
  /\ last.pre.orders_client # NoClient
  /\ ~last.pre.pending

\* C20: an amazon_login returns the success message exactly when the
\* provider's login() succeeded during that call, and the state right after
\* the call is LoggedIn exactly when it returned the success message.
C20_SuccessIffLoggedIn ==
  last.op = "amazon_login"
    => /\ (last.result = Success) = (last.logins = 1 /\ last.attempt.final = "ok")
       /\ (AuthState = "LoggedIn") = (last.result = Success)
       /\ (AuthState = "LoggedIn") = (orders_client # NoClient /\ ~pending_otp_request)

\* C20 witness: from OtpPending, after two failed attempts, one amazon_login
\* whose provider login succeeds reaches LoggedIn.
C20_Witness ==
  /\ last.op = "amazon_login"
  /\ PreState = "OtpPending"
  /\ last.pre.session.id >= 2
  /\ last.result = Success
  /\ AuthState = "LoggedIn"

\* The prompt texts of PromptMsgs that contain "otp", "code" or
\* "verification" in some letter case: "OTP", "passCode", "Verification".
\* ("captcha" and "cod e" contain none of them.)
OtpPatternMsgs == {MsgOTP, MsgPasscode, MsgVerification}

\* C16: for every prompt issued during a login attempt: an OTP-pattern
\* prompt is answered with the supplied code when one was supplied and raises
\* the OTP signal otherwise; any other prompt fails with the unsupported-
\* prompt error; and the interceptor's OTP-requested record is true at the
\* end exactly when an OTP-pattern prompt was issued during the attempt.
C16_InterceptorContract ==
  last.logins = 1
    => LET att == last.attempt
           n == Len(att.issued)
       IN /\ att.io.otp_code = last.otp_code
          /\ \A i \in 1..n :
               IF att.issued[i] \in OtpPatternMsgs
               THEN IF Truthy(att.io.otp_code)
                    THEN i <= Len(att.answers) /\ att.answers[i] = att.io.otp_code
                    ELSE /\ i = n
                         /\ Len(att.answers) = n - 1
                         /\ att.final = "none"
                         /\ last.exc = OTPRequiredError
               ELSE /\ i = n
                    /\ Len(att.answers) = n - 1
                    /\ att.final = "none"
                    /\ last.exc = PromptValueError(att.issued[i])
          /\ att.io.otp_requested = (\E i \in 1..n : att.issued[i] \in OtpPatternMsgs)

\* C16 witness: an attempt with a supplied code in which an upper-case OTP
\* prompt was answered and a later non-OTP prompt was refused.
C16_Witness ==
  /\ last.logins = 1
  /\ Truthy(last.otp_code)
  /\ last.attempt.issued = <<MsgOTP, MsgCod>>
  /\ last.attempt.answers = <<last.otp_code>>
  /\ last.attempt.io.otp_requested
  /\ last.exc = PromptValueError(MsgCod)

\* C14: the provider query of amazon_get_order_history and of
\* amazon_search_orders receives exactly one time selector: the filter token
\* when one is supplied (also together with a year), else the supplied year,
\* whatever its value, else the current calendar year.
C14_OneTimeSelector ==
  (last.op \in {"amazon_get_order_history", "amazon_search_orders"} /\ last.queries = 1)
    => LET a == last.args
           k == last.kwargs
       IN /\ (k.time_filter # None) # (k.year # <<>>)
          /\ IF Truthy(a.time_filter)
             THEN k.time_filter = a.time_filter /\ k.year = <<>>
             ELSE IF a.year # <<>>
             THEN k.year = a.year /\ k.time_filter = None
             ELSE k.year = <<CurrentYear>> /\ k.time_filter = None

\* ------------------------------------------------------------------ C13
\* The search has run.
SearchDone == facade.stage = "out" /\ facade.fn = "amazon_search_orders"

\* The orders of the provider's answer, in its order, that have an item
\* whose title is there and contains the term, both lower-cased.
OrdersContainingTerm ==
  LET Has(order) ==
        \E i \in 1..Len(order.items) :
          /\ order.items[i].title # <<>>
          /\ Contains(Lower(facade.search_term), Lower(order.items[i].title[1]))
  IN SelectSeq(facade.orders, Has)

\* The same with an empty title counted as no title.
OrdersContainingTermInNonEmptyTitle ==
  LET Has(order) ==
        \E i \in 1..Len(order.items) :
          /\ order.items[i].title # <<>>
          /\ order.items[i].title[1] # <<>>
          /\ Contains(Lower(facade.search_term), Lower(order.items[i].title[1]))
  IN SelectSeq(facade.orders, Has)

\* C13 as stated: amazon_search_orders returns exactly the provider's orders,
\* in provider order and each once, that have an item whose title contains
\* the search term case-insensitively, and asks the provider with full
\* details. Violated: an item whose title is the empty string contains the
\* empty search term, yet the code skips a falsy title.
C13_SearchReturnsContaining ==
  SearchDone =>
    /\ facade.kwargs.full_details = TRUE
    /\ facade.matching_orders = OrdersContainingTerm
    /\ facade.result = [i \in 1..Len(OrdersContainingTerm) |->
                          OrderToDict(OrdersContainingTerm[i])]

\* C13 amended: amazon_search_orders returns exactly the provider's orders,
\* in provider order and each once, that have an item with a non-empty title
\* containing the search term case-insensitively, and asks the provider with
\* full details.
C13_SearchReturnsContainingNonEmpty ==
  SearchDone =>
    /\ facade.kwargs.full_details = TRUE
    /\ facade.matching_orders = OrdersContainingTermInNonEmptyTitle
    /\ facade.result = [i \in 1..Len(OrdersContainingTermInNonEmptyTitle) |->
                          OrderToDict(OrdersContainingTermInNonEmptyTitle[i])]

\* The search for "hP" has run on two orders, the first with an item without
\* title and the second with two items titled "Hp", and returned the second
\* once.
C13_Witness ==
  /\ SearchDone
  /\ facade.search_term = <<"h", "P">>
  /\ Len(facade.orders) = 2
  /\ facade.orders[1].items = <<BareItem(<<>>)>>
  /\ facade.orders[2].items = <<BareItem(<< <<"H", "p">> >>), BareItem(<< <<"H", "p">> >>)>>
  /\ facade.matching_orders = <<facade.orders[2]>>

\* ------------------------------------------------------------------ C15
\* order_to_dict has run.
NormDone == facade.stage = "out" /\ facade.fn = "order_to_dict"

\* The provider supplied a non-null value for the optional field f of item.
ItemSupplied(item, f) ==
  CASE f = "price" -> item.price # <<>>
    [] f = "link" -> item.link # <<>>
    [] f = "seller" -> item.seller # <<>> /\ item.seller[1].name # <<>>
    [] OTHER -> item.condition # <<>>

\* The string representation of the supplied optional field f of item: an
\* amount by str(), a text as it is.
ItemString(item, f) ==
  CASE f = "price" -> JStr(item.price[1])
    [] f = "link" -> JRaw(item.link[1])
    [] f = "seller" -> JRaw(item.seller[1].name[1])
    [] OTHER -> JRaw(item.condition[1])

\* C15: in the normalised output of an order and of each of its items, an
\* optional field is a key exactly when the provider supplied a non-null
\* value for it, and its value is then that value's string representation.
\* Violated: item_to_dict emits price, link, seller and condition always,
\* null when unset.
C15_OptionalKeysExactlySupplied ==
  NormDone =>
    LET order == facade.order
        result == facade.result
    IN /\ \A f \in OptionalFields :
            /\ (f \in DOMAIN result) <=> (order.optional[f] # <<>>)
            /\ order.optional[f] # <<>> => result[f] = JStr(order.optional[f][1])
       /\ \A i \in 1..Len(order.items) :
            \A f \in ItemOptionalFields :
              /\ (f \in DOMAIN result["items"][i]) <=> ItemSupplied(order.items[i], f)
              /\ ItemSupplied(order.items[i], f)
                   => result["items"][i][f] = ItemString(order.items[i], f)

\* ------------------------------------------------------------------ C12
\* The call of caller p is an amazon_login past its entry: it has made its
\* first write to the globals and has not returned.
InLoginBody(p) ==
  calls[p].op = "amazon_login" /\ calls[p].pc \notin {"idle", "116"}

\* C12: two amazon_login calls in progress at once serialize: while one is in
\* its body the other waits at its entry, so the provider's login() is never
\* running for both and their writes to the globals do not interleave.
\* Violated: the code takes no lock.
C12_LoginCallsSerialize ==
  \A p, q \in Callers :
    (p # q /\ calls[p].op = "amazon_login" /\ calls[q].op = "amazon_login")
      => /\ ~(calls[p].pc = "login" /\ calls[q].pc = "login")
         /\ ~(InLoginBody(p) /\ InLoginBody(q))

\* ------------------------------------------------------------------ C17
\* C17: when an amazon_login call and another tool call overlap, a client
\* that get_orders_client builds wraps the session whose login() has just
\* succeeded in the same call: never another call's session, one whose
\* login() failed or one whose login() is still running. Violated: line 96
\* reads the global again, which the other call may have replaced meanwhile.
C17_ClientFromOwnLogin ==
  \A p, q \in Callers :
    (/\ p # q
     /\ calls[p].built # <<>>
     /\ calls[q].pc # "idle"
     /\ "amazon_login" \in {calls[p].op, calls[q].op})
      => /\ calls[p].built[1].session = calls[p].built[1].mine
         /\ calls[p].built[1].logged_in

====
